---------------------------- MODULE Spec2Model ----------------------------
(***************************************************************************)
(* A model of the record normalisation and enrichment engine of the        *)
(* fornlamningar repository:                                               *)
(*   - DatabaseEnricher (enrich_filtered_db.py): the graph resolver        *)
(*     extract_enhanced_description, extract_enrichment_data,              *)
(*     query_ksamsok_api, update_site_enrichment and enrich_database;      *)
(*   - RateLimitedAPI.get (src/api_utils.py) with its stacked decorators;  *)
(*   - process_samples and its helpers (test_description_generation.py).   *)
(*                                                                         *)
(* A Python str is modelled as a sequence of tokens: words and phrases,    *)
(* ":" and "|", and "\n" for a line break; the empty str is <<>>.  JSON     *)
(* values and Python objects are tagged records.                           *)
(***************************************************************************)
EXTENDS Integers, Sequences, FiniteSets, TLC

VARIABLES
    \* --- extract_enhanced_description called on its own
    r_doc,            \* the api_data argument of the call
    r_ret,            \* what the call returned or raised
    \* --- DatabaseEnricher object and its store
    field_stats,      \* self.field_stats
    db_columns,       \* table fornlamningar: the names of its columns
    db_rows,          \* table fornlamningar: inspireid -> enrichment columns
    db_before,        \* the rows as they were before the first run
    db_run1,          \* the rows as they were at the end of the first run
    registry,         \* what the registry answers for each inspireid
    writable,         \* what the store does at an UPDATE of the row
    sites,            \* the batch read by enrich_database
    e_i,              \* loop index of enrich_database (records processed)
    successful_updates,
    failed_updates,
    e_run,            \* which run of enrich_database is in progress
    e_pc,             \* "new", "idle", "loop", "returned" or "raised"
    e_log,            \* per processed record: what the iteration did
    \* --- RateLimitedAPI.get under its decorators, called in a burst
    num_calls,        \* state of @limits: calls counted in the current period
    since_reset,      \* state of @limits: clock() - last_reset, in ticks
    a_pc,             \* "idle", "slept" or "attempting"
    a_attempt,        \* the attempts made by the call in progress
    a_sleeps,         \* times @sleep_and_retry slept for the call in progress
    a_calls,          \* get() calls completed
    a_window,         \* ages, in ticks, of the completions of the last second
    a_last,           \* the last completed call
    \* --- process_samples
    samples,          \* the argument: a list of (inspire_id, original text)
    results,          \* the list being built
    shadow,           \* the list built by a second execution on the same samples
    invoked,          \* per sample: the Summarizer call and the exceptions of both
    s_i,              \* index of the sample the loop is at
    s_pc,             \* "idle", "loop" or "returned"
    \* --- parse_record and the scorers called on their own
    q_fn,             \* the function called
    q_arg,            \* its arguments
    q_ret,            \* what it returned
    q_again           \* what parse_record returned for the text written back

resolverVars == <<r_doc, r_ret>>
enrichVars   == <<db_columns, db_rows, db_before, db_run1, registry, writable, sites, e_i,
                  successful_updates, failed_updates, e_run, e_pc, e_log>>
apiVars      == <<num_calls, since_reset, a_pc, a_attempt, a_sleeps, a_calls,
                  a_window, a_last>>
sampleVars   == <<samples, results, shadow, invoked, s_i, s_pc>>
scorerVars   == <<q_fn, q_arg, q_ret, q_again>>
vars == <<resolverVars, field_stats, enrichVars, apiVars, sampleVars, scorerVars>>

\* what an action of one component leaves alone
notResolver == <<enrichVars, apiVars, sampleVars, scorerVars>>
notEnrich   == <<resolverVars, apiVars, sampleVars, scorerVars>>
notApi      == <<resolverVars, enrichVars, sampleVars, scorerVars>>
notSamples  == <<resolverVars, enrichVars, apiVars, field_stats, scorerVars>>
notScorer   == <<resolverVars, enrichVars, apiVars, field_stats, sampleVars>>

-----------------------------------------------------------------------------
(* Bounds of the model *)

MaxEntities == 3      \* entities in the @graph of a document
MaxSites    == 2      \* rows of the table fornlamningar
MaxRuns     == 2      \* runs of enrich_database by one enricher
BurstSize   == 12     \* get() calls issued back to back
TicksPerSecond == 2   \* resolution of the clock
MaxLatency  == 1      \* ticks one HTTP attempt may take

-----------------------------------------------------------------------------
(* Python values *)

JNull     == [t |-> "null"]
JStr(s)   == [t |-> "str", s |-> s]
JDict(f)  == [t |-> "dict", d |-> f]
JList(l)  == [t |-> "list", l |-> l]
EmptyDict == JDict(<<>>)

\* bool(v)
Truthy(v) ==
    CASE v.t = "null" -> FALSE
      [] v.t = "str"  -> v.s # <<>>
      [] v.t = "dict" -> DOMAIN v.d # {}
      [] v.t = "list" -> v.l # <<>>

\* k in v, for the container types
HasKey(v, k) == v.t = "dict" /\ k \in DOMAIN v.d

\* v.get(k, dflt) of a dict v
DictGet(v, k, dflt) == IF k \in DOMAIN v.d THEN v.d[k] ELSE dflt

\* str.startswith, on token sequences
StartsWith(s, p) == Len(s) >= Len(p) /\ SubSeq(s, 1, Len(p)) = p

\* what an f-string renders of a value
StrOf(v) == IF v.t = "str" THEN v.s ELSE <<"<object>">>

\* sep.join(parts)
RECURSIVE Join(_, _)
Join(sep, parts) ==
    IF parts = <<>> THEN <<>>
    ELSE IF Len(parts) = 1 THEN parts[1]
    ELSE parts[1] \o sep \o Join(sep, Tail(parts))


-----------------------------------------------------------------------------
(* DatabaseEnricher.extract_enhanced_description *)

MainPrefix == <<"http://kulturarvsdata.se/raa/lamning/">>

NoDataAvailable        == <<"No data available">>
MainEntityNotFound     == <<"Main entity not found">>
NoDescriptionAvailable == <<"No description available">>

\* A step of the traversal: whether it raised, the description_parts it
\* appended and the field_stats['fields_found'] keys it incremented.
Step(raise, parts, found) == [raise |-> raise, parts |-> parts, found |-> found]
NoStep == Step(FALSE, <<>>, <<>>)
Then(a, b) ==
    IF a.raise THEN a
    ELSE Step(b.raise, a.parts \o b.parts, a.found \o b.found)

\* entities = {entity["@id"]: entity for entity in graph if "@id" in entity};
\* entities.get(id): the last entity of the graph carrying that id, or None
EntitiesGet(graph, id) ==
    LET hits == {i \in 1..Len(graph) : HasKey(graph[i], "@id") /\ graph[i].d["@id"] = id}
    IN  IF hits = {} THEN JNull
        ELSE graph[CHOOSE i \in hits : \A j \in hits : j <= i]

\* (variant: the prefix test forgotten, any entity with a str @id is the main one)
MainIndexAnyId(graph) ==
    LET hits == {i \in 1..Len(graph) :
                    HasKey(graph[i], "@id") /\ graph[i].d["@id"].t = "str"}
    IN  IF hits = {} THEN 0
        ELSE CHOOSE i \in hits : \A j \in hits : i <= j

\* the first entity in document order whose @id is a str with the prefix
MainIndex(graph) ==
    LET hits == {i \in 1..Len(graph) :
                    /\ HasKey(graph[i], "@id")
                    /\ graph[i].d["@id"].t = "str"
                    /\ StartsWith(graph[i].d["@id"].s, MainPrefix)}
    IN  IF hits = {} THEN 0
        ELSE CHOOSE i \in hits : \A j \in hits : i <= j

\* entity.get(key, {}).get("@value", dflt): AttributeError when the attribute
\* is present and is not a dict
ValueRaises(entity, key) == HasKey(entity, key) /\ entity.d[key].t # "dict"
ValueOf(entity, key, dflt) ==
    IF HasKey(entity, key) THEN DictGet(entity.d[key], "@value", dflt) ELSE dflt

\* one reference of ksam:itemDescription / itemSpecification / itemNumber
RefStep(ref, graph, leafKey) ==
    IF ~(ref.t = "dict" /\ HasKey(ref, "@id")) THEN NoStep
    ELSE LET ent == EntitiesGet(graph, ref.d["@id"]) IN
         IF ~Truthy(ent) THEN NoStep
         ELSE IF ValueRaises(ent, "ksam:type") \/ ValueRaises(ent, leafKey)
              THEN Step(TRUE, <<>>, <<>>)
         ELSE LET type    == ValueOf(ent, "ksam:type", JStr(<<"Unknown">>))
                  content == ValueOf(ent, leafKey, JStr(<<>>))
              IN  IF Truthy(content)
                  THEN Step(FALSE, <<StrOf(type) \o <<":">> \o StrOf(content)>>,
                            <<StrOf(type)>>)
                  ELSE NoStep

RECURSIVE RefSteps(_, _, _)
RefSteps(refs, graph, leafKey) ==
    IF refs = <<>> THEN NoStep
    ELSE Then(RefStep(Head(refs), graph, leafKey),
              RefSteps(Tail(refs), graph, leafKey))

\* the loop over main_entity.get(listKey, []) when that is a list
RefSection(main, graph, listKey, leafKey) ==
    LET refs == DictGet(main, listKey, JList(<<>>))
    IN  IF refs.t = "list" THEN RefSteps(refs.l, graph, leafKey) ELSE NoStep

GeoKeys == << <<"ksam:provinceName", "Province">>, <<"ksam:countyName", "County">>,
              <<"ksam:municipalityName", "Municipality">>, <<"ksam:parishName", "Parish">> >>

RECURSIVE GeoInfo(_, _)
GeoInfo(ctx, keys) ==
    IF keys = <<>> THEN <<>>
    ELSE LET v == ValueOf(ctx, keys[1][1], JNull)
         IN  (IF Truthy(v) THEN << <<keys[1][2], ":">> \o StrOf(v) >> ELSE <<>>)
             \o GeoInfo(ctx, Tail(keys))

GeoSection(main, graph) ==
    LET ref == DictGet(main, "ksam:context", JNull) IN
    IF ~(Truthy(ref) /\ ref.t = "dict" /\ HasKey(ref, "@id")) THEN NoStep
    ELSE LET ctx == EntitiesGet(graph, ref.d["@id"]) IN
         IF ~Truthy(ctx) THEN NoStep
         ELSE IF \E i \in 1..Len(GeoKeys) : ValueRaises(ctx, GeoKeys[i][1])
              THEN Step(TRUE, <<>>, <<>>)
         ELSE LET info == GeoInfo(ctx, GeoKeys)
              IN  IF info # <<>>
                  THEN Step(FALSE, <<Join(<<"|">>, info)>>, << <<"geographic">> >>)
                  ELSE NoStep

\* v = main_entity.get(key); if v: parts.append(f"{label}: {v}")
PlainSection(main, key, label, stat) ==
    LET v == DictGet(main, key, JNull)
    IN  IF Truthy(v) THEN Step(FALSE, << <<label, ":">> \o StrOf(v) >>, stat) ELSE NoStep

\* v = main_entity.get(key, {}).get("@value"); if v: parts.append(...)
WrappedSection(main, key, label, stat) ==
    IF ValueRaises(main, key) THEN Step(TRUE, <<>>, <<>>)
    ELSE LET v == ValueOf(main, key, JNull)
         IN  IF Truthy(v) THEN Step(FALSE, << <<label, ":">> \o StrOf(v) >>, stat)
             ELSE NoStep

\* (variant: the geographic line appended after the specifications)
DescriptionPartsGeoAfterSpecs(main, graph) ==
    Then(PlainSection(main, "ksam:itemTitle", "Title", <<>>),
    Then(WrappedSection(main, "ksam:itemClassName", "Class", <<>>),
    Then(RefSection(main, graph, "ksam:itemDescription", "ksam:desc"),
    Then(RefSection(main, graph, "ksam:itemSpecification", "ksam:spec"),
    Then(GeoSection(main, graph),
    Then(RefSection(main, graph, "ksam:itemNumber", "ksam:number"),
    Then(WrappedSection(main, "ksam:serviceOrganization", "Organization",
                        << <<"organization">> >>),
    Then(PlainSection(main, "ksam:buildDate", "Build Date", << <<"buildDate">> >>),
    Then(PlainSection(main, "ksam:lastChangedDate", "Last Changed",
                      << <<"lastChanged">> >>),
         PlainSection(main, "ksam:url", "URL", << <<"url">> >>))))))))))

\* description_parts in the order the code appends them
DescriptionParts(main, graph) ==
    Then(PlainSection(main, "ksam:itemTitle", "Title", <<>>),
    Then(WrappedSection(main, "ksam:itemClassName", "Class", <<>>),
    Then(RefSection(main, graph, "ksam:itemDescription", "ksam:desc"),
    Then(GeoSection(main, graph),
    Then(RefSection(main, graph, "ksam:itemSpecification", "ksam:spec"),
    Then(RefSection(main, graph, "ksam:itemNumber", "ksam:number"),
    Then(WrappedSection(main, "ksam:serviceOrganization", "Organization",
                        << <<"organization">> >>),
    Then(PlainSection(main, "ksam:buildDate", "Build Date", << <<"buildDate">> >>),
    Then(PlainSection(main, "ksam:lastChangedDate", "Last Changed",
                      << <<"lastChanged">> >>),
         PlainSection(main, "ksam:url", "URL", << <<"url">> >>))))))))))

\* The outcome of a call: kind "return" with the returned str, or kind "raise";
\* found lists the fields_found keys incremented on the way.
Outcome(kind, value, found) == [kind |-> kind, value |-> value, found |-> found]

\* for entity in graph: "@id" in entity   raises on None, and
\* entities[entity["@id"]] on an unhashable id;
\* for entity in graph: entity.get("@id") raises on any non-dict met before the
\* main entity
GraphScanRaises(graph) ==
    LET m    == MainIndex(graph)
        upto == IF m = 0 THEN Len(graph) ELSE m
    IN  \/ \E i \in 1..Len(graph) : graph[i].t = "null"
        \/ \E i \in 1..Len(graph) :
              HasKey(graph[i], "@id") /\ graph[i].d["@id"].t \in {"list", "dict"}
        \/ \E i \in 1..upto : graph[i].t # "dict"

extract_enhanced_description(api_data) ==
    IF ~Truthy(api_data) \/ ~HasKey(api_data, "@graph")
    THEN Outcome("return", NoDataAvailable, <<>>)
    ELSE LET g == api_data.d["@graph"] IN
         IF g.t # "list"
         THEN \* None is not iterable; the elements of a str or of a dict are
              \* str, and str has no get
              IF g.t = "null" \/ Truthy(g) THEN Outcome("raise", <<>>, <<>>)
              ELSE Outcome("return", MainEntityNotFound, <<>>)
         ELSE IF GraphScanRaises(g.l) THEN Outcome("raise", <<>>, <<>>)
         ELSE IF MainIndex(g.l) = 0 THEN Outcome("return", MainEntityNotFound, <<>>)
         ELSE LET st == DescriptionParts(g.l[MainIndex(g.l)], g.l) IN
              IF st.raise THEN Outcome("raise", <<>>, st.found)
              ELSE Outcome("return",
                           IF st.parts # <<>> THEN Join(<<"\n", "\n">>, st.parts)
                           ELSE NoDescriptionAvailable,
                           st.found)

\* self.field_stats['fields_found'][k] = ...get(k, 0) + 1 for each k of found
RECURSIVE CountFound(_, _)
CountFound(ff, found) ==
    IF found = <<>> THEN ff
    ELSE LET k == Head(found)
             n == IF k \in DOMAIN ff THEN ff[k] ELSE 0
         IN  CountFound((k :> n + 1) @@ ff, Tail(found))


-----------------------------------------------------------------------------
(* Graph documents the registry can answer with *)

Id(ns, n) == JStr(<<ns, n>>)
Ref(id)   == JDict("@id" :> id)
Val(s)    == JDict("@value" :> JStr(s))

MainId  == Id("http://kulturarvsdata.se/raa/lamning/", "u1")
DescId  == Id("_:", "d1")
CtxId   == Id("_:", "c1")
NumId   == Id("_:", "n1")
Desc2Id == Id("_:", "d2")
SpecId  == Id("_:", "s1")
OtherId == Id("http://kulturarvsdata.se/resurser/", "x1")
GoneId  == Id("http://kulturarvsdata.se/resurser/", "gone")

EMainFull ==
    JDict(("@id" :> MainId)
       @@ ("ksam:itemTitle" :> JStr(<<"L1975:8421">>))
       @@ ("ksam:itemClassName" :> Val(<<"Stensattning">>))
       @@ ("ksam:itemDescription" :> JList(<<Ref(DescId), Ref(GoneId)>>))
       @@ ("ksam:context" :> Ref(CtxId))
       @@ ("ksam:itemNumber" :> JList(<<Ref(NumId)>>))
       @@ ("ksam:serviceOrganization" :> Val(<<"RAA">>))
       @@ ("ksam:url" :> JStr(<<"http://x">>))
       @@ ("ksam:itemKeyword" :> JList(<<JStr(<<"grav">>)>>)))
EMainTitle ==
    JDict(("@id" :> MainId)
       @@ ("ksam:itemTitle" :> JStr(<<"L1975:8421">>))
       @@ ("ksam:itemKeyword" :> JStr(<<"grav">>)))
EMainBare  == JDict("@id" :> MainId)
EMainBadClass ==
    JDict(("@id" :> MainId)
       @@ ("ksam:itemTitle" :> JStr(<<"L1975:8421">>))
       @@ ("ksam:itemClassName" :> JStr(<<"Stensattning">>)))
EDesc ==
    JDict(("@id" :> DescId)
       @@ ("ksam:type" :> Val(<<"Beskrivning">>))
       @@ ("ksam:desc" :> Val(<<"rose", "5 m">>)))
EDescNoLeaf ==
    JDict(("@id" :> DescId) @@ ("ksam:type" :> Val(<<"Beskrivning">>)))
\* a description entity without ksam:desc whose type is a plain literal
EDescBareType ==
    JDict(("@id" :> DescId) @@ ("ksam:type" :> JStr(<<"Beskrivning">>)))
EDesc2 ==
    JDict(("@id" :> Desc2Id)
       @@ ("ksam:type" :> Val(<<"Tradition">>))
       @@ ("ksam:desc" :> Val(<<"offerkalla">>)))
ESpec ==
    JDict(("@id" :> SpecId)
       @@ ("ksam:type" :> Val(<<"Terrang">>))
       @@ ("ksam:spec" :> Val(<<"skogsmark">>)))
\* a main entity with every attribute extract_enhanced_description reads
EMainAll ==
    JDict(("@id" :> MainId)
       @@ ("ksam:itemTitle" :> JStr(<<"L1975:8421">>))
       @@ ("ksam:itemClassName" :> Val(<<"Stensattning">>))
       @@ ("ksam:itemDescription" :> JList(<<Ref(DescId), Ref(Desc2Id)>>))
       @@ ("ksam:context" :> Ref(CtxId))
       @@ ("ksam:itemSpecification" :> JList(<<Ref(SpecId)>>))
       @@ ("ksam:itemNumber" :> JList(<<Ref(NumId)>>))
       @@ ("ksam:serviceOrganization" :> Val(<<"RAA">>))
       @@ ("ksam:buildDate" :> JStr(<<"2014-01-01">>))
       @@ ("ksam:lastChangedDate" :> JStr(<<"2020-05-05">>))
       @@ ("ksam:url" :> JStr(<<"http://x">>)))
ECtx ==
    JDict(("@id" :> CtxId)
       @@ ("ksam:provinceName" :> Val(<<"Uppland">>))
       @@ ("ksam:parishName" :> Val(<<"Vaksala">>)))
ENum ==
    JDict(("@id" :> NumId)
       @@ ("ksam:type" :> Val(<<"RAA-nummer">>))
       @@ ("ksam:number" :> Val(<<"Vaksala 12:1">>)))
EOther == JDict(("@id" :> OtherId) @@ ("ksam:itemTitle" :> JStr(<<"other">>)))
ENoId  == JDict("ksam:itemTitle" :> JStr(<<"anonymous">>))
EStr   == JStr(<<"junk">>)

Entities == {EMainFull, EMainTitle, EMainBare, EMainBadClass, EDesc, EDescNoLeaf,
             EDescBareType, ECtx, ENum, EOther, ENoId, EStr}

SeqsUpTo(S, n) == UNION {[1..k -> S] : k \in 0..n}

\* documents with a graph of up to n entities, and the documents without one
GraphDocs(n) == {JDict("@graph" :> JList(g)) : g \in SeqsUpTo(Entities, n)}
NoGraphDocs  == {JNull, EmptyDict, JDict("error" :> JStr(<<"not found">>)),
                 JDict("@context" :> EmptyDict)}
Docs(n) == GraphDocs(n) \cup NoGraphDocs
            \cup {JDict("@graph" :> JNull), JDict("@graph" :> EmptyDict)}

\* the entities EMainAll refers to
Targets == {EDesc, EDesc2, ECtx, ESpec, ENum}

\* the orders in which a document may list the entities of S
Perms(S) ==
    {g \in [1..Cardinality(S) -> S] :
        \A i, j \in 1..Cardinality(S) : g[i] = g[j] => i = j}

\* the documents that hold EMainAll and some of its targets, in any order
ShuffledDocs ==
    UNION {{JDict("@graph" :> JList(g)) : g \in Perms(T \cup {EMainAll})} :
             T \in SUBSET Targets}


-----------------------------------------------------------------------------
(* extract_enhanced_description called on its own *)

NotCalled == [kind |-> "none"]
NoStats ==
    [total_requests |-> 0, successful_requests |-> 0, failed_requests |-> 0,
     fields_found |-> <<>>, extraction_errors |-> 0]

ResolverInit ==
    /\ r_doc \in Docs(MaxEntities) \cup ShuffledDocs
    /\ r_ret = NotCalled

ResolverIdle ==
    /\ r_doc = JNull
    /\ r_ret = NotCalled

\* description = enricher.extract_enhanced_description(r_doc)
CallExtract ==
    /\ r_ret = NotCalled
    /\ LET out == extract_enhanced_description(r_doc) IN
       /\ r_ret' = [kind |-> out.kind, value |-> out.value]
       /\ field_stats' = [field_stats EXCEPT
                            !.fields_found = CountFound(@, out.found)]
    /\ UNCHANGED <<r_doc, notResolver>>


-----------------------------------------------------------------------------
(* RateLimitedAPI.get: one HTTP attempt and the retry policy around it *)

\* What the registry does with one HTTP attempt.
Response(status, body) == [k |-> "response", status |-> status, body |-> body]
Failure(class)         == [k |-> "exception", class |-> class]
Unparsable             == [t |-> "bad"]

\* session.get(...) followed by response.raise_for_status(): the exception class
\* the attempt raises, or "none"
AttemptException(answer) ==
    IF answer.k = "exception" THEN answer.class
    ELSE IF answer.status >= 400 /\ answer.status < 600 THEN "HTTPError"
    ELSE "none"

\* retry_if_exception_type((requests.RequestException, ConnectionError))
RetriedExceptions == {"HTTPError", "ConnectionError", "Timeout"}
retry_if_exception_type(class) == class \in RetriedExceptions

\* stop_after_attempt(3)
StopAfterAttempt == 3

\* (variant: the stop condition left out)
AfterAttemptNoStop(answer, n) ==
    LET exc == AttemptException(answer) IN
    IF exc = "none" THEN "return"
    ELSE IF ~retry_if_exception_type(exc) THEN "raise"
    ELSE "retry"

\* what tenacity does after attempt number n answered with `answer`
AfterAttempt(answer, n) ==
    LET exc == AttemptException(answer) IN
    IF exc = "none" THEN "return"
    ELSE IF ~retry_if_exception_type(exc) THEN "raise"
    ELSE IF n >= StopAfterAttempt THEN "retry_error"
    ELSE "retry"

\* the result of get() against answers[1], answers[2], ... of the registry
GetResult(kind, answer, exc, attempts) ==
    [kind |-> kind, answer |-> answer, exc |-> exc, attempts |-> attempts]

RECURSIVE RetryLoop(_, _)
RetryLoop(answers, n) ==
    LET a == answers[n]
        d == AfterAttempt(a, n)
    IN  CASE d = "return"      -> GetResult("response", a, "none", n)
          [] d = "raise"       -> GetResult("raise", a, AttemptException(a), n)
          [] d = "retry_error" -> GetResult("raise", a, "RetryError", n)
          [] d = "retry"       -> RetryLoop(answers, n + 1)

\* get() against a registry that answers every attempt alike
get(answer) == RetryLoop([n \in 1..StopAfterAttempt |-> answer], 1)

-----------------------------------------------------------------------------
(* DatabaseEnricher.query_ksamsok_api *)

\* (variant: the request is counted successful before the body is parsed)
query_counts_before_parse(stats, res) ==
    LET total == [stats EXCEPT !.total_requests = @ + 1]
        ok    == res.kind = "response" /\ res.answer.status = 200
    IN  IF ok
        THEN IF res.answer.body.t # "bad"
             THEN [ret |-> res.answer.body,
                   stats |-> [total EXCEPT !.successful_requests = @ + 1]]
             ELSE [ret |-> JNull,
                   stats |-> [total EXCEPT !.successful_requests = @ + 1,
                                           !.failed_requests = @ + 1]]
        ELSE [ret |-> JNull,
              stats |-> [total EXCEPT !.failed_requests = @ + 1]]

\* the returned site_data (None is JNull) and the updated counters
query_ksamsok_api(stats, res) ==
    LET total == [stats EXCEPT !.total_requests = @ + 1]
        ok    == /\ res.kind = "response"
                 /\ res.answer.status = 200
                 /\ res.answer.body.t # "bad"      \* response.json() raises
    IN  IF ok
        THEN [ret |-> res.answer.body,
              stats |-> [total EXCEPT !.successful_requests = @ + 1]]
        ELSE [ret |-> JNull,
              stats |-> [total EXCEPT !.failed_requests = @ + 1]]

-----------------------------------------------------------------------------
(* DatabaseEnricher.extract_enrichment_data *)

EnrichmentData(kw, title, desc) ==
    [itemKeyword |-> kw, itemTitle |-> title, description |-> desc]
EmptyEnrichment == EnrichmentData(JNull, JNull, JNull)

\* json.dumps of a list
json_dumps(list) ==
    JStr(<<"[">> \o Join(<<",">>, [i \in 1..Len(list) |-> StrOf(list[i])]) \o <<"]">>)

\* the elements `for entity in graph` visits
IterItems(graph) == IF graph.t = "list" THEN graph.l ELSE <<>>

\* the loop looking for the main entity: 0 when none, -1 when it raises
\* (entity.get("@id", "") is not a str)
RECURSIVE FindMain(_, _)
FindMain(items, i) ==
    IF i > Len(items) THEN 0
    ELSE IF items[i].t # "dict" THEN FindMain(items, i + 1)
    ELSE LET id == DictGet(items[i], "@id", JStr(<<>>)) IN
         IF id.t # "str" THEN -1
         ELSE IF StartsWith(id.s, MainPrefix) THEN i
         ELSE FindMain(items, i + 1)

\* enrichment: the returned EnrichmentData; found: the fields_found keys
\* incremented; error: whether the except branch ran
Extraction(enrichment, found, error) ==
    [enrichment |-> enrichment, found |-> found, error |-> error]

extract_enrichment_data(api_response) ==
    IF api_response.t # "dict" THEN Extraction(EmptyEnrichment, <<>>, TRUE)
    ELSE LET graph == DictGet(api_response, "@graph", JList(<<>>)) IN
    IF graph.t = "null" THEN Extraction(EmptyEnrichment, <<>>, TRUE)
    ELSE LET items == IterItems(graph)
             m     == FindMain(items, 1) IN
    IF m = -1 THEN Extraction(EmptyEnrichment, <<>>, TRUE)
    ELSE IF m = 0 THEN Extraction(EmptyEnrichment, <<>>, FALSE)
    ELSE LET out == extract_enhanced_description(api_response)
             kw  == DictGet(items[m], "ksam:itemKeyword", JList(<<>>))
         IN  IF out.kind = "raise" THEN Extraction(EmptyEnrichment, out.found, TRUE)
             ELSE Extraction(
                    EnrichmentData(
                        IF ~Truthy(kw) THEN JNull
                        ELSE IF kw.t = "list" THEN json_dumps(kw.l)
                        ELSE json_dumps(<<kw>>),
                        DictGet(items[m], "ksam:itemTitle", JNull),
                        JStr(out.value)),
                    out.found, FALSE)

-----------------------------------------------------------------------------
(* DatabaseEnricher.update_site_enrichment *)

\* (variant: the new description is appended to the stored one)
update_site_accumulating(rows, inspireid, enrichment, commits) ==
    IF commits /\ inspireid \in DOMAIN rows
    THEN [rows EXCEPT ![inspireid] =
            IF rows[inspireid].description.t = "str" /\ enrichment.description.t = "str"
            THEN [enrichment EXCEPT !.description =
                    JStr(rows[inspireid].description.s \o @.s)]
            ELSE enrichment]
    ELSE rows

\* UPDATE fornlamningar SET itemKeyword = ?, itemTitle = ?, description = ?
\* WHERE inspireid = ?; an exception of execute or commit is logged and the
\* row is left as it was
update_site_enrichment(rows, inspireid, enrichment, commits) ==
    IF commits /\ inspireid \in DOMAIN rows
    THEN [rows EXCEPT ![inspireid] = enrichment]
    ELSE rows


-----------------------------------------------------------------------------
(* DatabaseEnricher.enrich_database *)

DocFull     == JDict("@graph" :> JList(<<EDesc, EMainFull, ECtx>>))
DocTitle    == JDict("@graph" :> JList(<<EMainTitle>>))
DocNoMain   == JDict("@graph" :> JList(<<EOther>>))
DocNoGraph  == JDict("error" :> JStr(<<"not found">>))
DocBadClass == JDict("@graph" :> JList(<<EMainBadClass>>))

\* what the registry may answer for a record, the same at every attempt
Answers ==
    {Response(200, d) : d \in {DocFull, DocTitle, DocNoMain, DocNoGraph,
                               DocBadClass, EmptyDict, Unparsable}}
    \cup {Response(204, JNull), Response(404, JNull), Failure("ConnectionError")}

\* a row enriched by an earlier run against an earlier answer of the registry
OldRow == EnrichmentData(JStr(<<"[", "hog", "]">>), JStr(<<"L1970:1">>),
                         JStr(<<"Title", ":", "L1970:1">>))

\* the columns of the table as filter_database leaves it, to which an
\* earlier enrichment may have added the description column
BaseColumns == {"inspireid", "uuid", "itemKeyword", "itemTitle"}

\* what the store does when update_site_enrichment is called for a row:
\* the UPDATE commits; execute or commit raises inside the try block; or
\* sqlite3.connect, which is outside the try block, raises
StoreOutcomes == {"commits", "execute raises", "connect raises"}

\* (variant: the record is counted successful before the row is updated)
TallyCountsBeforeUpdate(successful, failed, step) ==
    CASE step = "updated"     -> [successful |-> successful + 1, failed |-> failed]
      [] step = "no response" -> [successful |-> successful, failed |-> failed + 1]
      [] step = "raised"      -> [successful |-> successful + 1, failed |-> failed + 1]

\* the counters after an iteration: successful_updates += 1 once
\* update_site_enrichment has returned, failed_updates += 1 when the
\* response is falsy or when a step of the iteration raised
Tally(successful, failed, step) ==
    CASE step = "updated"     -> [successful |-> successful + 1, failed |-> failed]
      [] step = "no response" -> [successful |-> successful, failed |-> failed + 1]
      [] step = "raised"      -> [successful |-> successful, failed |-> failed + 1]

\* the table before the enricher is constructed
EnrichInit ==
    /\ db_columns \in {BaseColumns, BaseColumns \cup {"description"}}
    /\ \E n \in 0..MaxSites :
         /\ \E old \in {OldRow, EmptyEnrichment} :
              /\ old = OldRow => "description" \in db_columns
              /\ db_rows = [i \in 1..n |-> old]
         /\ registry \in [1..n -> Answers]
         /\ writable \in [1..n -> StoreOutcomes]
    /\ db_before = db_rows
    /\ db_run1 = db_rows
    /\ sites = <<>>
    /\ e_i = 0
    /\ successful_updates = 0
    /\ failed_updates = 0
    /\ e_run = 0
    /\ e_pc = "new"
    /\ e_log = <<>>

EnrichIdle ==
    /\ db_columns = {}
    /\ db_rows = <<>>
    /\ db_before = <<>>
    /\ db_run1 = <<>>
    /\ registry = <<>>
    /\ writable = <<>>
    /\ sites = <<>>
    /\ e_i = 0
    /\ successful_updates = 0
    /\ failed_updates = 0
    /\ e_run = 0
    /\ e_pc = "idle"
    /\ e_log = <<>>

\* DatabaseEnricher(db_path): ensure_description_column adds the column
\* when PRAGMA table_info does not list it, unless the store raises, which
\* is logged; then the statistics are set up
Construct ==
    /\ e_pc = "new"
    /\ \E commits \in BOOLEAN :
         db_columns' = IF "description" \notin db_columns /\ commits
                       THEN db_columns \cup {"description"}
                       ELSE db_columns
    /\ field_stats' = NoStats
    /\ e_pc' = "idle"
    /\ UNCHANGED <<db_rows, db_before, db_run1, registry, writable, sites, e_i,
                   successful_updates, failed_updates, e_run, e_log, notEnrich>>

\* SELECT inspireid, uuid FROM fornlamningar; the counters start at 0
EnrichStart ==
    /\ e_pc \in {"idle", "returned", "raised"}
    /\ e_run < MaxRuns
    /\ e_run' = e_run + 1
    /\ e_pc' = "loop"
    /\ sites' = [i \in 1..Cardinality(DOMAIN db_rows) |-> i]
    /\ e_i' = 0
    /\ successful_updates' = 0
    /\ failed_updates' = 0
    /\ e_log' = <<>>
    /\ UNCHANGED <<db_columns, db_rows, db_before, db_run1, registry, writable,
                   field_stats, notEnrich>>

\* one iteration of `for i, (inspireid, uuid) in enumerate(sites, 1)`
EnrichIterate ==
    /\ e_pc = "loop"
    /\ e_i < Len(sites)
    /\ LET inspireid == sites[e_i + 1]
           q    == query_ksamsok_api(field_stats, get(registry[inspireid]))
           ex   == extract_enrichment_data(q.ret)
           step == IF ~Truthy(q.ret) THEN "no response"
                   ELSE IF writable[inspireid] = "connect raises" THEN "raised"
                   ELSE "updated"
           t    == Tally(successful_updates, failed_updates, step)
       IN  /\ db_rows' =
                IF step = "updated"
                THEN update_site_enrichment(db_rows, inspireid, ex.enrichment,
                         writable[inspireid] = "commits"
                         /\ "description" \in db_columns)
                ELSE db_rows
           /\ field_stats' =
                IF step = "no response" THEN q.stats
                ELSE [q.stats EXCEPT
                        !.fields_found = CountFound(@, ex.found),
                        !.extraction_errors = IF ex.error THEN @ + 1 ELSE @]
           /\ successful_updates' = t.successful
           /\ failed_updates' = t.failed
           /\ e_log' = Append(e_log,
                  [inspireid |-> inspireid,
                   step      |-> step,
                   counted   |-> IF t.successful > successful_updates
                                 THEN "successful" ELSE "failed"])
    /\ e_i' = e_i + 1
    /\ UNCHANGED <<db_columns, db_before, db_run1, registry, writable, sites,
                   e_run, e_pc, notEnrich>>

\* the final report: successful_updates/total_sites raises ZeroDivisionError
\* on an empty batch
EnrichFinish ==
    /\ e_pc = "loop"
    /\ e_i = Len(sites)
    /\ e_pc' = IF Len(sites) = 0 THEN "raised" ELSE "returned"
    /\ db_run1' = IF e_run = 1 THEN db_rows ELSE db_run1
    /\ UNCHANGED <<db_columns, db_rows, db_before, registry, writable, sites,
                   e_i, successful_updates, failed_updates, e_run, e_log,
                   field_stats, notEnrich>>

EnrichNext == Construct \/ EnrichStart \/ EnrichIterate \/ EnrichFinish


-----------------------------------------------------------------------------
(* RateLimitedAPI.get under @sleep_and_retry, @limits and @retry, called by *)
(* query_ksamsok_api in a burst.  The clock is kept relative: @limits reads *)
(* only clock() - last_reset, and a rolling window only the age of a        *)
(* completion.                                                              *)

\* APIConfig(rate_limit=5) of DatabaseEnricher.__init__
RateLimit == 5
\* @limits(calls=10, period=1)
LimitCalls == 10
LimitPeriod == 1
\* wait_exponential(multiplier=1, min=4, max=10)
WaitMultiplier == 1
WaitMin == 4
WaitMax == 10

Min(a, b) == IF a <= b THEN a ELSE b
Max(a, b) == IF a >= b THEN a ELSE b

\* seconds tenacity waits after failed attempt number n
wait_exponential(n) == Max(WaitMin, Min(WaitMax, WaitMultiplier * 2 ^ (n - 1)))

\* @limits: period - (clock() - last_reset), in ticks
PeriodTicks == LimitPeriod * TicksPerSecond
PeriodRemaining == PeriodTicks - since_reset

\* dt ticks pass: clock() - last_reset grows (kept up to the period, beyond
\* which @limits does not tell it apart), completions age and leave the
\* rolling second
Elapse(since, dt) == Min(PeriodTicks, since + dt)
Aged(window, dt) ==
    SelectSeq([i \in 1..Len(window) |-> window[i] + dt],
              LAMBDA age : age < TicksPerSecond)

\* the answers one HTTP attempt of the burst can get
AttemptAnswers ==
    {Response(200, DocTitle), Response(200, Unparsable), Response(204, JNull),
     Response(404, JNull), Response(500, JNull),
     Failure("ConnectionError"), Failure("Timeout"), Failure("Other")}

\* what is remembered of an answer: its status, or the class of its exception
Seen(answer) ==
    IF answer.k = "response" THEN ToString(answer.status) ELSE answer.class

NoAttempt == [n |-> 0, first |-> "none"]

ApiInit ==
    /\ since_reset = 0
    /\ num_calls = 0
    /\ a_pc = "idle"
    /\ a_attempt = NoAttempt
    /\ a_sleeps = 0
    /\ a_calls = 0
    /\ a_window = <<>>
    /\ a_last = NotCalled

\* The wrapper of @limits, entered by @sleep_and_retry: it starts a new period
\* when the current one is over and counts the call; over the limit it raises
\* RateLimitException and @sleep_and_retry sleeps for the rest of the period
\* and enters it again.
ApiGate ==
    /\ a_pc \in {"idle", "slept"}
    /\ a_calls < BurstSize
    /\ LET over  == PeriodRemaining <= 0
           calls == (IF over THEN 0 ELSE num_calls) + 1
           since == IF over THEN 0 ELSE since_reset
       IN  /\ num_calls' = calls
           /\ IF calls > LimitCalls
              THEN /\ since_reset' = Elapse(since, PeriodTicks - since)
                   /\ a_window' = Aged(a_window, PeriodTicks - since)
                   /\ a_pc' = "slept"
                   /\ a_sleeps' = a_sleeps + 1
              ELSE /\ since_reset' = since
                   /\ a_window' = a_window
                   /\ a_pc' = "attempting"
                   /\ a_sleeps' = a_sleeps
    /\ UNCHANGED <<a_attempt, a_calls, a_last, field_stats, notApi>>

\* One attempt of @retry: session.get and raise_for_status, then tenacity
\* returns, raises, or waits and tries again.  When get() ends,
\* query_ksamsok_api counts the request and returns.
ApiAttempt ==
    /\ a_pc = "attempting"
    /\ \E answer \in AttemptAnswers, latency \in 0..MaxLatency :
         LET n     == a_attempt.n + 1
             first == IF n = 1 THEN Seen(answer) ELSE a_attempt.first
             d     == AfterAttempt(answer, n)
         IN  IF d = "retry"
             THEN LET dt == latency + wait_exponential(n) * TicksPerSecond IN
                  /\ since_reset' = Elapse(since_reset, dt)
                  /\ a_window' = Aged(a_window, dt)
                  /\ a_attempt' = [n |-> n, first |-> first]
                  /\ UNCHANGED <<a_pc, a_sleeps, a_calls, a_last, field_stats>>
             ELSE LET res == CASE d = "return" -> GetResult("response", answer, "none", n)
                               [] d = "raise"  -> GetResult("raise", answer,
                                                            AttemptException(answer), n)
                               [] d = "retry_error" ->
                                     GetResult("raise", answer, "RetryError", n)
                      q   == query_ksamsok_api(field_stats, res)
                  IN  /\ since_reset' = Elapse(since_reset, latency)
                      /\ a_window' = IF d = "return"
                                     THEN Append(Aged(a_window, latency), 0)
                                     ELSE Aged(a_window, latency)
                      /\ a_pc' = "idle"
                      /\ a_attempt' = NoAttempt
                      /\ a_sleeps' = 0
                      /\ a_calls' = a_calls + 1
                      /\ a_last' = [kind |-> res.kind, exc |-> res.exc,
                                    attempts |-> n, first |-> first,
                                    sleeps |-> a_sleeps,
                                    returned_none |-> (q.ret = JNull),
                                    failed |-> q.stats.failed_requests
                                                 - field_stats.failed_requests,
                                    successful |-> q.stats.successful_requests
                                                 - field_stats.successful_requests]
                      /\ field_stats' = q.stats
    /\ UNCHANGED <<num_calls, notApi>>

ApiNext == ApiGate \/ ApiAttempt

-----------------------------------------------------------------------------
(* test_description_generation.py: parse_record, the scorers and            *)
(* process_samples.  A str is a sequence of tokens: a word or a phrase,     *)
(* ":", "|" or "\n".  The blanks between tokens are not represented, and    *)
(* Swedish letters are written without their diacritics.                    *)

MaxSamples == 2       \* samples handed to process_samples

NL == "\n"

FIELD_MAP ==
    ("Class" :> "class") @@ ("Klass" :> "class")
    @@ ("Skadestatus" :> "damage_status")
    @@ ("Undersokningsstatus" :> "exam_status")
    @@ ("Beskrivning" :> "description_sv")
    @@ ("Placering" :> "placement")
    @@ ("Terrang" :> "terrain")
    @@ ("Orientering" :> "orientation")
    @@ ("Province" :> "province_line") @@ ("County" :> "province_line")
    @@ ("Municipality" :> "province_line") @@ ("Parish" :> "province_line")
    @@ ("Aktualitetsstatus" :> "actuality_status")
    @@ ("Antikvarisk bedomning" :> "antiquarian_assessment")
    @@ ("Lamningsnummer" :> "lamningsnummer")
    @@ ("RAA-nummer" :> "raa_number")
    @@ ("Organization" :> "organization")
    @@ ("Build Date" :> "build_date")
    @@ ("Last Changed" :> "last_changed")
    @@ ("URL" :> "url") @@ ("Title" :> "title")
    @@ ("Tradition" :> "tradition")
    @@ ("Referens" :> "reference") @@ ("References" :> "reference")

DISCLAIMER_PATTERNS ==
    {"Beskrivningen ar inte kvalitetssakrad.",
     "Information kan saknas, vara felaktig eller inaktuell.",
     "Se aven Inventeringsbok."}

\* the tokens URL_REGEX matches
UrlTokens == {"http://x", "https://y"}

\* str.lower, on the tokens that carry capitals
LowerCase ==
    ("Province" :> "province") @@ ("County" :> "county")
    @@ ("Municipality" :> "municipality") @@ ("Parish" :> "parish")
    @@ ("Ej synlig" :> "ej synlig") @@ ("Synlig ovan mark" :> "synlig ovan mark")
    @@ ("Tydligt synlig" :> "tydligt synlig") @@ ("Rose" :> "rose")
    @@ ("Stensattning" :> "stensattning")
lower(tok) == IF tok \in DOMAIN LowerCase THEN LowerCase[tok] ELSE tok

\* position of the first token tok of s, 0 when there is none
IndexOf(s, tok) ==
    LET hits == {i \in 1..Len(s) : s[i] = tok}
    IN  IF hits = {} THEN 0 ELSE CHOOSE i \in hits : \A j \in hits : i <= j

\* s.split(sep)
RECURSIVE split(_, _)
split(s, sep) ==
    LET i == IndexOf(s, sep)
    IN  IF i = 0 THEN <<s>>
        ELSE <<SubSeq(s, 1, i - 1)>> \o split(SubSeq(s, i + 1, Len(s)), sep)

\* s.splitlines(): no line after a final line break, none for the empty str
splitlines(s) ==
    LET pieces == split(s, NL)
    IN  IF pieces[Len(pieces)] = <<>> THEN SubSeq(pieces, 1, Len(pieces) - 1)
        ELSE pieces

\* s.strip(): of the white space only line breaks are represented
RECURSIVE lstrip(_)
lstrip(s) == IF s # <<>> /\ Head(s) = NL THEN lstrip(Tail(s)) ELSE s
RECURSIVE rstrip(_)
rstrip(s) ==
    IF s # <<>> /\ s[Len(s)] = NL THEN rstrip(SubSeq(s, 1, Len(s) - 1)) ELSE s
strip(s) == lstrip(rstrip(s))

\* pattern.sub("", s) for a pattern that matches the tokens of drop
Sub(drop, s) == SelectSeq(s, LAMBDA tok : tok \notin drop)
\* pattern.search(s)
Search(pats, s) == \E i \in 1..Len(s) : s[i] \in pats

\* F applied to the value of x, which is computed once
With(x, F(_)) == CHOOSE r \in {F(v) : v \in {x}} : TRUE

\* d.get(k, "")
Get(d, k) == IF k \in DOMAIN d THEN d[k] ELSE <<>>

None == "None"
ParserStart == [result |-> <<>>, current_key |-> None, buf |-> <<>>]

\* (variant: the value of a later section replaces the stored one)
flush_overwrites(st) ==
    LET value == strip(Join(<<NL>>, st.buf))
        key   == st.current_key
    IN  [result |->
            IF key # None /\ value # <<>>
            THEN (key :> value) @@ st.result
            ELSE st.result,
         current_key |-> None,
         buf |-> <<>>]

\* the closure flush() of parse_record
flush(st) ==
    LET value == strip(Join(<<NL>>, st.buf))
        key   == st.current_key
    IN  [result |->
            IF key # None /\ value # <<>>
            THEN IF key \in DOMAIN st.result /\ st.result[key] # <<>>
                 THEN (key :> (st.result[key] \o <<NL>> \o value)) @@ st.result
                 ELSE (key :> value) @@ st.result
            ELSE st.result,
         current_key |-> None,
         buf |-> <<>>]

\* (variant: a label is recognised wherever it stands before the colon)
ParseLineLooseLabel(st, raw) ==
    LET line  == strip(raw)
        c     == IndexOf(line, ":")
        field == strip(SubSeq(line, 1, c - 1))
        rest  == lstrip(SubSeq(line, c + 1, Len(line)))
    IN  IF line = <<>>
        THEN IF st.current_key # None
             THEN [st EXCEPT !.buf = Append(@, <<>>)]
             ELSE st
        ELSE IF c > 1 /\ field[Len(field)] \in DOMAIN FIELD_MAP
        THEN [flush(st) EXCEPT !.current_key = FIELD_MAP[field[Len(field)]],
                               !.buf = <<rest>>]
        ELSE IF st.current_key = None THEN st
        ELSE [st EXCEPT !.buf = Append(@, line)]

\* one turn of the loop over the lines
ParseLine(st, raw) ==
    LET line  == strip(raw)
        c     == IndexOf(line, ":")
        field == strip(SubSeq(line, 1, c - 1))
        rest  == lstrip(SubSeq(line, c + 1, Len(line)))
    IN  IF line = <<>>
        THEN IF st.current_key # None
             THEN [st EXCEPT !.buf = Append(@, <<>>)]
             ELSE st
        ELSE IF c > 0 /\ Len(field) = 1 /\ field[1] \in DOMAIN FIELD_MAP
        THEN [flush(st) EXCEPT !.current_key = FIELD_MAP[field[1]],
                               !.buf = <<rest>>]
        ELSE IF st.current_key = None THEN st
        ELSE [st EXCEPT !.buf = Append(@, line)]

RECURSIVE ParseLines(_, _)
ParseLines(st, lines) ==
    IF lines = <<>> THEN st
    ELSE With(ParseLine(st, Head(lines)), LAMBDA next : ParseLines(next, Tail(lines)))

\* the subfields of the combined province line
RECURSIVE ProvinceParts(_, _)
ProvinceParts(result, parts) ==
    IF parts = <<>> THEN result
    ELSE LET p == strip(Head(parts))
             c == IndexOf(p, ":")
             k == strip(SubSeq(p, 1, c - 1))
             v == strip(SubSeq(p, c + 1, Len(p)))
             key == IF Len(k) = 1 THEN lower(k[1]) ELSE None
         IN  ProvinceParts(
                 IF c > 0 /\ key \in {"province", "county", "municipality", "parish"}
                 THEN (key :> v) @@ result
                 ELSE result,
                 Tail(parts))

UrlFreeFields ==
    {"description_sv", "terrain", "orientation", "placement", "reference",
     "tradition", "title"}

\* the part of parse_record that follows the last flush()
AfterFlush(result) ==
    With(IF "province_line" \in DOMAIN result
         THEN ProvinceParts(result, split(result["province_line"], "|"))
         ELSE result,
         LAMBDA r : [k \in DOMAIN r |->
                       IF k \in UrlFreeFields THEN strip(Sub(UrlTokens, r[k]))
                       ELSE r[k]])

parse_record(text) ==
    With(flush(ParseLines(ParserStart, splitlines(text))).result,
         LAMBDA result : AfterFlush(result))

strip_disclaimers(text) == strip(Sub(DISCLAIMER_PATTERNS, text))

\* src.raa_class_mapping: the English label of a Swedish class
RAA_CLASS_MAPPING ==
    ("Stensattning" :> "Stone setting") @@ ("Rose" :> "Cairn")

\* (variant: the test for an empty Swedish description left out)
build_description_input_unchecked(parsed) ==
    LET cls_sv   == strip(Get(parsed, "class"))
        cls_en   == IF Len(cls_sv) = 1 /\ cls_sv[1] \in DOMAIN RAA_CLASS_MAPPING
                    THEN <<RAA_CLASS_MAPPING[cls_sv[1]]>>
                    ELSE <<>>
        cls_line == IF cls_en # <<>>
                    THEN cls_sv \o <<"(">> \o cls_en \o <<")">>
                    ELSE cls_sv
        desc_sv  == strip_disclaimers(Get(parsed, "description_sv"))
        terrain  == strip(Get(parsed, "terrain"))
        orientation == strip(Get(parsed, "orientation"))
    IN  Join(<<NL>>,
             (IF cls_line # <<>> THEN <<cls_line>> ELSE <<>>)
             \o << <<"Description (sv):">> \o desc_sv >>
             \o (IF terrain # <<>>
                 THEN << <<"Terrain (sv):">> \o terrain >> ELSE <<>>)
             \o (IF orientation # <<>>
                 THEN << <<"Orientation (sv):">> \o orientation >> ELSE <<>>))

build_description_input(parsed) ==
    LET cls_sv   == strip(Get(parsed, "class"))
        cls_en   == IF Len(cls_sv) = 1 /\ cls_sv[1] \in DOMAIN RAA_CLASS_MAPPING
                    THEN <<RAA_CLASS_MAPPING[cls_sv[1]]>>
                    ELSE <<>>
        cls_line == IF cls_en # <<>>
                    THEN cls_sv \o <<"(">> \o cls_en \o <<")">>
                    ELSE cls_sv
        desc_sv  == strip_disclaimers(Get(parsed, "description_sv"))
        terrain  == strip(Get(parsed, "terrain"))
        orientation == strip(Get(parsed, "orientation"))
    IN  IF desc_sv = <<>> THEN <<>>
        ELSE Join(<<NL>>,
                  (IF cls_line # <<>> THEN <<cls_line>> ELSE <<>>)
                  \o << <<"Description (sv):">> \o desc_sv >>
                  \o (IF terrain # <<>>
                      THEN << <<"Terrain (sv):">> \o terrain >> ELSE <<>>)
                  \o (IF orientation # <<>>
                      THEN << <<"Orientation (sv):">> \o orientation >> ELSE <<>>))

VIS_VISIBLE_PATTERNS == {"synlig ovan mark", "tydligt synlig"}
VIS_NOT_VISIBLE_PATTERNS == {"ej synlig", "undermark", "under mark", "overtackt"}

\* the tokens MEASURE_PAT matches, once each
MeasureTokens == {"5 m", "2 m", "30 cm"}

\* for the tokens that hold feature hints, the FEATURE_HINTS they contain
HintsIn ==
    ("rose" :> {"rose"}) @@ ("kantkedja" :> {"kantkedja"})
    @@ ("hallrist" :> {"hall", "hallrist"}) @@ ("mittgrop" :> {"mittgrop"})
    @@ ("stensattning" :> {"stensattning"}) @@ ("vall" :> {"vall"})

\* (variant: the "visible" patterns tested first)
compute_visibility_visible_first(parsed) ==
    LET placement == Get(parsed, "placement")
        text == [i \in 1..Len(placement) |-> lower(placement[i])]
    IN  IF Search(VIS_VISIBLE_PATTERNS, text) THEN 2
        ELSE IF Search(VIS_NOT_VISIBLE_PATTERNS, text) THEN 0
        ELSE 1

compute_visibility(parsed) ==
    LET placement == Get(parsed, "placement")
        text == [i \in 1..Len(placement) |-> lower(placement[i])]
    IN  IF Search(VIS_NOT_VISIBLE_PATTERNS, text) THEN 0
        ELSE IF Search(VIS_VISIBLE_PATTERNS, text) THEN 2
        ELSE 1

\* (variant: only the parsed description is searched)
disclaimers_in_description_only(original_text, parsed) ==
    Search(DISCLAIMER_PATTERNS, Get(parsed, "description_sv"))

disclaimers_present(original_text, parsed) ==
    \/ Search(DISCLAIMER_PATTERNS, original_text)
    \/ Search(DISCLAIMER_PATTERNS, Get(parsed, "description_sv"))

detail_score(desc_sv) ==
    IF desc_sv = <<>> THEN 0
    ELSE LET measures == SelectSeq(desc_sv, LAMBDA tok : tok \in MeasureTokens)
             low == [i \in 1..Len(desc_sv) |-> lower(desc_sv[i])]
             hints == UNION {HintsIn[low[i]] :
                               i \in {j \in 1..Len(low) : low[j] \in DOMAIN HintsIn}}
         IN  Min(5, Len(measures)) + Cardinality(hints)

\* (variant: a very sparse description gives 0, as the docstring has it)
compute_condition_sparse_zero(original_text, parsed) ==
    LET has_disclaimer == disclaimers_present(original_text, parsed)
        desc_sv == Get(parsed, "description_sv")
        score == detail_score(desc_sv)
    IN  IF strip(desc_sv) = <<>> THEN 0
        ELSE IF has_disclaimer THEN 0
        ELSE IF score >= 4 THEN 2
        ELSE IF score <= 1 THEN 0
        ELSE 1

compute_condition(original_text, parsed) ==
    LET has_disclaimer == disclaimers_present(original_text, parsed)
        desc_sv == Get(parsed, "description_sv")
        score == detail_score(desc_sv)
    IN  IF strip(desc_sv) = <<>> THEN 0
        ELSE IF has_disclaimer THEN 0
        ELSE IF score >= 4 THEN 2
        ELSE IF score <= 1 THEN 1
        ELSE 1

-----------------------------------------------------------------------------
(* process_samples *)

\* what the Summarizer service does with one request: the text of its
\* answer, or the message of the exception generate_description raises
SummarizerOutcomes ==
    {[raise |-> FALSE, text |-> <<"A", "cairn">>, error |-> ""],
     [raise |-> FALSE, text |-> <<NL, "Ej synlig", NL, "cairn", NL>>, error |-> ""],
     [raise |-> TRUE, text |-> <<>>, error |-> "Connection refused"]}

\* api.generate_description(...) returns response['response'].strip() or
\* raises; the text returned is out.strip().replace("\n", " ")
generate_clean_description(api, desc_input) ==
    IF api.raise
    THEN [raise |-> TRUE, error |-> api.error, value |-> <<>>]
    ELSE [raise |-> FALSE, error |-> "", value |-> Sub({NL}, strip(strip(api.text)))]

\* the result of a sample without usable description content
MissingResult(inspire_id, orig, parsed, desc_input) ==
    [inspireId |-> inspire_id,
     original_description |-> orig,
     parsed |-> parsed,
     desc_input |-> desc_input,
     qc_signals |-> [reason |-> "no_usable_description"],
     description |-> <<"missing">>,
     visibility |-> 0,
     condition_known |-> 0]

\* (variant: visibility read off the English description)
SuccessResultFromSummary(inspire_id, orig, parsed, desc_input, description_en) ==
    [inspireId |-> inspire_id,
     original_description |-> orig,
     parsed |-> parsed,
     desc_input |-> desc_input,
     qc_signals |-> [placement |-> Get(parsed, "placement"),
                     disclaimer_present |-> disclaimers_present(orig.s, parsed),
                     detail_score |-> detail_score(Get(parsed, "description_sv"))],
     description |-> description_en,
     visibility |-> compute_visibility(("placement" :> description_en) @@ parsed),
     condition_known |-> compute_condition(orig.s, parsed)]

\* the result of a sample the Summarizer described
SuccessResult(inspire_id, orig, parsed, desc_input, description_en) ==
    [inspireId |-> inspire_id,
     original_description |-> orig,
     parsed |-> parsed,
     desc_input |-> desc_input,
     qc_signals |-> [placement |-> Get(parsed, "placement"),
                     disclaimer_present |-> disclaimers_present(orig.s, parsed),
                     detail_score |-> detail_score(Get(parsed, "description_sv"))],
     description |-> description_en,
     visibility |-> compute_visibility(parsed),
     condition_known |-> compute_condition(orig.s, parsed)]

\* (variant: the handler logs the exception and appends nothing)
OnExceptionSkips(rs, inspire_id, orig, e) == rs

\* except Exception as e: the results after the handler
OnException(rs, inspire_id, orig, e) ==
    Append(rs, [inspireId |-> inspire_id,
                original_description |-> orig,
                parsed |-> <<>>,
                desc_input |-> <<>>,
                qc_signals |-> [error |-> e],
                description |-> <<"ERROR:", e>>,
                visibility |-> 1,
                condition_known |-> 1])

\* str(e) of the AttributeError text.splitlines() raises for None
NoSplitlines == "'NoneType' object has no attribute 'splitlines'"

\* The body of the loop for one sample and one behaviour of the Summarizer:
\* the results after it, whether the Summarizer was called, whether an
\* exception reached the handler and its text.
LoopBody(rs, sample, api) ==
    LET inspire_id == sample[1]
        orig       == sample[2]
    IN  IF orig.t # "str"
        THEN [results |-> OnException(rs, inspire_id, orig, NoSplitlines),
              called |-> FALSE, raised |-> TRUE, error |-> NoSplitlines]
        ELSE With(parse_record(orig.s), LAMBDA parsed :
             With(build_description_input(parsed), LAMBDA desc_input :
                 IF strip(desc_input) = <<>>
                 THEN [results |-> Append(rs, MissingResult(inspire_id, orig,
                                                           parsed, desc_input)),
                       called |-> FALSE, raised |-> FALSE, error |-> ""]
                 ELSE LET g == generate_clean_description(api, desc_input)
                      IN  IF g.raise
                          THEN [results |-> OnException(rs, inspire_id, orig, g.error),
                                called |-> TRUE, raised |-> TRUE, error |-> g.error]
                          ELSE [results |-> Append(rs, SuccessResult(inspire_id, orig,
                                                      parsed, desc_input, g.value)),
                                called |-> TRUE, raised |-> FALSE, error |-> ""]))

Disclaimer == "Beskrivningen ar inte kvalitetssakrad."

\* rows of (inspireid, description) as get_random_samples returns them
TextRich ==
    <<"Klass", ":", "Stensattning", NL,
      "Beskrivning", ":", "Rose", "kantkedja", "5 m", "2 m", NL,
      "Placering", ":", "Synlig ovan mark">>
TextHidden ==
    <<"Beskrivning", ":", "rose", "5 m", NL, "Placering", ":", "Ej synlig", NL>>
TextDisclaimed ==
    <<"Beskrivning", ":", "hallrist", Disclaimer, NL, "Terrang", ":", "skog">>
TextOnlyDisclaimer == <<"Beskrivning", ":", Disclaimer>>
TextNoDescription == <<"Placering", ":", "Ej synlig">>
TextOnlyUrl ==
    <<"Beskrivning", ":", "http://x", NL, "Placering", ":", "Synlig ovan mark">>
TextLoose ==
    <<"inledning", NL, "Beskrivning", ":", NL, NL, "hallrist", "vall", NL,
      "obs", ":", "mittgrop", "5 m", NL,
      "Province", ":", "Uppland", "|", "Parish", ":", "Vaksala">>

Samples ==
    {<<"s1", JStr(TextRich)>>, <<"s2", JStr(TextHidden)>>,
     <<"s3", JStr(TextDisclaimed)>>, <<"s4", JStr(TextOnlyDisclaimer)>>,
     <<"s5", JStr(TextNoDescription)>>, <<"s6", JStr(TextOnlyUrl)>>,
     <<"s7", JStr(TextLoose)>>, <<"s8", JStr(<<>>)>>, <<"s9", JNull>>}

SamplesInit ==
    /\ samples \in SeqsUpTo(Samples, MaxSamples)
    /\ results = <<>>
    /\ shadow = <<>>
    /\ invoked = <<>>
    /\ s_i = 1
    /\ s_pc = "loop"

\* one turn of the loop, run twice over: the Summarizer of the second
\* execution behaves as it likes
ProcessSample ==
    /\ s_pc = "loop"
    /\ s_i <= Len(samples)
    /\ \E api \in SummarizerOutcomes, api2 \in SummarizerOutcomes :
          LET b  == LoopBody(results, samples[s_i], api)
              b2 == LoopBody(shadow, samples[s_i], api2)
          IN  /\ results' = b.results
              /\ shadow' = b2.results
              /\ invoked' = Append(invoked, [called |-> b.called,
                                             raised |-> b.raised,
                                             error |-> b.error,
                                             shadow_raised |-> b2.raised])
    /\ s_i' = s_i + 1
    /\ UNCHANGED <<samples, s_pc, notSamples>>

ReturnResults ==
    /\ s_pc = "loop"
    /\ s_i > Len(samples)
    /\ s_pc' = "returned"
    /\ UNCHANGED <<samples, results, shadow, invoked, s_i, notSamples>>

SamplesNext == ProcessSample \/ ReturnResults

-----------------------------------------------------------------------------
(* parse_record, compute_visibility and compute_condition called on their   *)
(* own, on arguments drawn from bounded sets of token sequences             *)

MaxPlacement   == 2   \* tokens of a placement text
MaxDescription == 3   \* tokens of a Swedish description
MaxText        == 4   \* tokens of a text handed to parse_record
MaxLines       == 3   \* lines of a sectioned text handed to parse_record

PlacementTokens ==
    {"Ej synlig", "overtackt", "Synlig ovan mark", "Tydligt synlig", "skog"}
DescriptionTokens == {"rose", "hallrist", "kantkedja", "5 m", Disclaimer, NL}
TextTokens == {"Beskrivning", "Placering", ":", NL, "rose", "http://x"}

\* the raw texts compute_condition is called with
RawTexts == {<<>>, <<"Beskrivning", ":", "rose">>, <<"rose", Disclaimer>>}

\* the names a context entity may carry
GeoNames ==
    ("ksam:provinceName" :> "Uppland") @@ ("ksam:countyName" :> "Uppsala lan")
    @@ ("ksam:municipalityName" :> "Uppsala") @@ ("ksam:parishName" :> "Vaksala")

\* the context entities with a non-empty subset of the four names
GeoContexts ==
    {JDict(("@id" :> CtxId) @@ [k \in keys |-> Val(<<GeoNames[k]>>)]) :
        keys \in (SUBSET DOMAIN GeoNames) \ {{}}}

\* the geographic line extract_enhanced_description emits for the entity
GeoLine(ctx) == Join(<<"|">>, GeoInfo(ctx, GeoKeys))

\* the line alone, and as a part of a description that starts with a title
GeoTexts ==
    UNION {{GeoLine(ctx), <<"Title", ":", "L1970:1", NL, NL>> \o GeoLine(ctx)} :
             ctx \in GeoContexts}

\* lines of a sectioned text: label lines of two keys, one of them under
\* two labels, with and without a value, a continuation line and a blank
SectionLines ==
    {<<"Beskrivning", ":", "rose">>, <<"Beskrivning", ":", "http://x">>,
     <<"Beskrivning", ":">>, <<"Class", ":", "Rose">>,
     <<"Klass", ":", "Stensattning">>, <<"kantkedja">>, <<>>}

SectionTexts == {Join(<<NL>>, ls) : ls \in SeqsUpTo(SectionLines, MaxLines)}

\* parsed mappings with and without the key
WithKey(key, values) == {<<>>} \cup {key :> v : v \in values}

ScorerInit ==
    /\ \/ /\ q_fn = "compute_visibility"
          /\ q_arg \in [parsed : WithKey("placement",
                                        SeqsUpTo(PlacementTokens, MaxPlacement))]
       \/ /\ q_fn = "compute_condition"
          /\ q_arg \in [original_text : RawTexts,
                        parsed : WithKey("description_sv",
                                         SeqsUpTo(DescriptionTokens, MaxDescription))]
       \/ /\ q_fn = "parse_record"
          /\ q_arg \in [text : SeqsUpTo(TextTokens, MaxText)
                                 \cup GeoTexts \cup SectionTexts]
       \/ /\ q_fn = "detail_score"
          /\ q_arg \in [desc_sv : SeqsUpTo(DescriptionTokens, MaxDescription)]
    /\ q_ret = NotCalled
    /\ q_again = NotCalled

ScorerIdle ==
    /\ q_fn = "none"
    /\ q_arg = <<>>
    /\ q_ret = NotCalled
    /\ q_again = NotCalled

Returned(value) == [kind |-> "return", value |-> value]

\* v = compute_visibility(parsed)
CallVisibility ==
    /\ q_fn = "compute_visibility"
    /\ q_ret = NotCalled
    /\ q_ret' = Returned(compute_visibility(q_arg.parsed))
    /\ UNCHANGED <<q_fn, q_arg, q_again, notScorer>>

\* c = compute_condition(orig, parsed)
CallCondition ==
    /\ q_fn = "compute_condition"
    /\ q_ret = NotCalled
    /\ q_ret' = Returned(compute_condition(q_arg.original_text, q_arg.parsed))
    /\ UNCHANGED <<q_fn, q_arg, q_again, notScorer>>

\* detail_score(parsed.get("description_sv", "") or "")
CallDetailScore ==
    /\ q_fn = "detail_score"
    /\ q_ret = NotCalled
    /\ q_ret' = Returned(detail_score(q_arg.desc_sv))
    /\ UNCHANGED <<q_fn, q_arg, q_again, notScorer>>

\* parsed = parse_record(text)
CallParse ==
    /\ q_fn = "parse_record"
    /\ q_ret = NotCalled
    /\ q_ret' = Returned(parse_record(q_arg.text))
    /\ UNCHANGED <<q_fn, q_arg, q_again, notScorer>>

\* the canonical keys in the order of their first label in FIELD_MAP
KeyOrder ==
    <<"class", "damage_status", "exam_status", "description_sv", "placement",
      "terrain", "orientation", "province_line", "actuality_status",
      "antiquarian_assessment", "lamningsnummer", "raa_number", "organization",
      "build_date", "last_changed", "url", "title", "tradition", "reference">>

\* a label FIELD_MAP maps to the key
LabelOf(key) == CHOOSE label \in DOMAIN FIELD_MAP : FIELD_MAP[label] = key

\* A mapping written back as section-labelled text: one "Label: value"
\* section per key that has a label.  The subfields of the province line
\* have none; parsing derives them again from the province line.
Serialise(parsed) ==
    LET keys == SelectSeq(KeyOrder, LAMBDA k : k \in DOMAIN parsed)
    IN  Join(<<NL>>, [i \in 1..Len(keys) |->
                        <<LabelOf(keys[i]), ":">> \o parsed[keys[i]]])

\* parse_record(serialised text of the mapping returned)
Reparse ==
    /\ q_fn = "parse_record"
    /\ q_ret # NotCalled
    /\ q_again = NotCalled
    /\ q_again' = Returned(parse_record(Serialise(q_ret.value)))
    /\ UNCHANGED <<q_fn, q_arg, q_ret, notScorer>>

ScorerNext ==
    CallVisibility \/ CallCondition \/ CallDetailScore \/ CallParse \/ Reparse

-----------------------------------------------------------------------------
(* Specifications *)

ApiIdle ==
    /\ num_calls = 0
    /\ since_reset = 0
    /\ a_pc = "idle"
    /\ a_attempt = NoAttempt
    /\ a_sleeps = 0
    /\ a_calls = 0
    /\ a_window = <<>>
    /\ a_last = NotCalled

SamplesIdle ==
    /\ samples = <<>>
    /\ results = <<>>
    /\ shadow = <<>>
    /\ invoked = <<>>
    /\ s_i = 1
    /\ s_pc = "idle"

ResolverNext == CallExtract

\* extract_enhanced_description applied to one document
InitResolver ==
    ResolverInit /\ EnrichIdle /\ ApiIdle /\ SamplesIdle /\ ScorerIdle
    /\ field_stats = NoStats
SpecResolver == InitResolver /\ [][ResolverNext]_vars

\* enrich_database run by one enricher over one table
InitEnrich ==
    EnrichInit /\ ResolverIdle /\ ApiIdle /\ SamplesIdle /\ ScorerIdle
    /\ field_stats = NoStats
SpecEnrich == InitEnrich /\ [][EnrichNext]_vars

\* a burst of get() calls made through query_ksamsok_api
InitApi ==
    ApiInit /\ ResolverIdle /\ EnrichIdle /\ SamplesIdle /\ ScorerIdle
    /\ field_stats = NoStats
SpecApi == InitApi /\ [][ApiNext]_vars

\* process_samples applied to one list of samples
InitSamples ==
    SamplesInit /\ ResolverIdle /\ EnrichIdle /\ ApiIdle /\ ScorerIdle
    /\ field_stats = NoStats
SpecSamples == InitSamples /\ [][SamplesNext]_vars

\* parse_record, compute_visibility or compute_condition applied once
InitScorer ==
    ScorerInit /\ ResolverIdle /\ EnrichIdle /\ ApiIdle /\ SamplesIdle
    /\ field_stats = NoStats
SpecScorer == InitScorer /\ [][ScorerNext]_vars

-----------------------------------------------------------------------------
(* Properties *)

\* a document without graph structure: None, empty, or lacking "@graph"
WithoutGraph(doc) == ~Truthy(doc) \/ ~HasKey(doc, "@graph")

\* a document whose graph is a non-empty list of entities, each a dict with a
\* str @id outside the primary-resource prefix
AllOutsidePrefix(doc) ==
    /\ HasKey(doc, "@graph")
    /\ doc.d["@graph"].t = "list"
    /\ doc.d["@graph"].l # <<>>
    /\ \A i \in 1..Len(doc.d["@graph"].l) :
         LET e == doc.d["@graph"].l[i] IN
         /\ HasKey(e, "@id")
         /\ e.d["@id"].t = "str"
         /\ ~StartsWith(e.d["@id"].s, MainPrefix)

\* C10: extract_enhanced_description returns "No data available", without
\* raising, for every document without graph structure, and returns "Main
\* entity not found" for every document whose entities all have identifiers
\* outside the primary-resource prefix.
C10_Sentinels ==
    r_ret # NotCalled =>
      /\ WithoutGraph(r_doc) =>
           r_ret = [kind |-> "return", value |-> NoDataAvailable]
      /\ AllOutsidePrefix(r_doc) =>
           r_ret = [kind |-> "return", value |-> MainEntityNotFound]

C10_Witness ==
    /\ r_ret # NotCalled
    /\ AllOutsidePrefix(r_doc)
    /\ Len(r_doc.d["@graph"].l) = 2
    /\ r_ret.value = MainEntityNotFound

\* what one run fetches for a record, and what it extracts from it
FetchedFor(id)   == query_ksamsok_api(NoStats, get(registry[id])).ret
ExtractedFor(id) == extract_enrichment_data(FetchedFor(id))

\* the fetch, the resolution or the extraction of the record fails
FetchFails(id)      == ~Truthy(FetchedFor(id))
ResolutionFails(id) ==
    /\ ~FetchFails(id)
    /\ \/ WithoutGraph(FetchedFor(id))
       \/ FetchedFor(id).d["@graph"].t # "list"
       \/ MainIndex(FetchedFor(id).d["@graph"].l) = 0
ExtractionFails(id) == ~FetchFails(id) /\ ExtractedFor(id).error

\* C2: no partial record update is persisted: every row holds either the
\* triple fully computed from the fetched document or what it held before
\* the run, and the row of a record whose fetch, resolution or extraction
\* failed is not written at all.
C2_NoPartialUpdate ==
    \A id \in DOMAIN db_rows :
      IF FetchFails(id) \/ ResolutionFails(id) \/ ExtractionFails(id)
      THEN db_rows[id] = db_before[id]
      ELSE db_rows[id] \in {db_before[id], ExtractedFor(id).enrichment}

\* C3: a record whose fetched document fails to resolve (no graph structure
\* or no main entity) is counted in failed_updates, not in
\* successful_updates.
C3_ResolutionFailureCountedFailed ==
    \A k \in 1..Len(e_log) :
      ResolutionFails(e_log[k].inspireid) => e_log[k].counted = "failed"

\* C4: after a second run over the same table against the same registry
\* every row is what it was after the first run.
C4_Idempotent ==
    (e_run >= 2 /\ e_pc \in {"returned", "raised"}) => db_rows = db_run1

C4_Witness ==
    /\ e_run = 2
    /\ e_pc = "returned"
    /\ \E id \in DOMAIN db_rows :
         /\ db_rows[id] # db_before[id]
         /\ db_rows[id].description.t = "str"
    /\ \E id \in DOMAIN db_rows : db_rows[id] = db_before[id]


\* C7: with the ceiling configured at 5 requests per second, no rolling
\* second of a burst sees more than 5 requests complete.
C7_AtMostFivePerSecond == Len(a_window) <= RateLimit

\* C8: every call of get ends after at most 3 HTTP attempts and at most one
\* sleep of the rate limiter, and a call whose attempts all failed is
\* reported: query_ksamsok_api returns None and counts one failed request.
C8_BoundedAttempts ==
    /\ a_attempt.n < StopAfterAttempt
    /\ a_sleeps <= 1
    /\ a_last # NotCalled =>
         /\ a_last.attempts <= StopAfterAttempt
         /\ a_last.sleeps <= 1
         /\ a_last.kind = "raise" =>
              /\ a_last.returned_none
              /\ a_last.failed = 1
              /\ a_last.successful = 0

C8_Witness ==
    /\ a_last # NotCalled
    /\ a_last.exc = "RetryError"
    /\ a_last.attempts = StopAfterAttempt
    /\ a_last.returned_none
    /\ a_last.failed = 1
    /\ field_stats.total_requests = field_stats.failed_requests
                                      + field_stats.successful_requests
    /\ field_stats.total_requests > LimitCalls

\* C9: a call whose first attempt is answered 404 ends after that single
\* attempt.
C9_NotFoundSingleAttempt ==
    (a_last # NotCalled /\ a_last.first = "404") => a_last.attempts = 1

-----------------------------------------------------------------------------
(* process_samples: claims *)

\* a result of the except branch
Failed(r) == "error" \in DOMAIN r.qc_signals

\* C1: process_samples returns exactly one result per input sample, in input
\* order, whatever parsing or the Summarizer call raises for any sample, and
\* the result of a sample that raised carries the text of the exception in
\* its qc_signals.
C1_OneResultPerSample ==
    /\ s_pc # "idle" => Len(results) = s_i - 1
    /\ s_pc = "returned" =>
         /\ Len(results) = Len(samples)
         /\ \A i \in 1..Len(samples) :
              /\ results[i].inspireId = samples[i][1]
              /\ results[i].original_description = samples[i][2]
              /\ invoked[i].raised =>
                   /\ Failed(results[i])
                   /\ results[i].qc_signals.error = invoked[i].error

\* a returned run in which a sample raised, in parsing or in the Summarizer
\* call, and a later sample was still processed
C1_Witness ==
    /\ s_pc = "returned"
    /\ Len(results) = Len(samples)
    /\ \E i, j \in 1..Len(samples) :
         /\ i < j
         /\ invoked[i].raised
         /\ results[i].qc_signals.error \in {NoSplitlines, "Connection refused"}
         /\ ~invoked[j].raised

\* the samples whose parsed Swedish description is empty
EmptyDescription(sample) ==
    /\ sample[2].t = "str"
    /\ Get(parse_record(sample[2].s), "description_sv") = <<>>

\* C5: for every sample whose parsed Swedish description is empty the result
\* has description "missing", visibility 0 and condition_known 0, and the
\* Summarizer was not called for it.
C5_EmptyDescriptionIsMissing ==
    \A i \in 1..Len(results) :
        (i <= Len(samples) /\ i < s_i /\ EmptyDescription(samples[i])) =>
            /\ results[i].description = <<"missing">>
            /\ results[i].visibility = 0
            /\ results[i].condition_known = 0
            /\ ~invoked[i].called

\* a processed sample whose description held nothing but a link, and whose
\* placement alone would have given visibility 2
C5_Witness ==
    \E i \in 1..Len(results) :
        /\ EmptyDescription(samples[i])
        /\ "description_sv" \in DOMAIN results[i].parsed
        /\ compute_visibility(results[i].parsed) = 2
        /\ results[i].description = <<"missing">>
        /\ ~invoked[i].called

\* C6 as stated: two executions on the same samples that differ only in
\* what the Summarizer does (the text it returns, or its failing) give every
\* sample the same visibility and the same condition_known.
C6_IndependentOfSummarizer ==
    \A i \in 1..Len(results) :
        i <= Len(shadow) =>
            /\ results[i].visibility = shadow[i].visibility
            /\ results[i].condition_known = shadow[i].condition_known

\* C6 amended: two executions in both of which the Summarizer returns a
\* text give the sample the same visibility and condition_known whatever
\* the texts; an execution in which the Summarizer fails gives the sample
\* the result of a failed record, visibility 1 and condition_known 1.
C6_IndependentOfSummarizerText ==
    \A i \in 1..Len(results) :
        i <= Len(shadow) =>
            /\ (~invoked[i].raised /\ ~invoked[i].shadow_raised) =>
                  /\ results[i].visibility = shadow[i].visibility
                  /\ results[i].condition_known = shadow[i].condition_known
            /\ (invoked[i].called /\ invoked[i].raised) =>
                  /\ results[i].visibility = 1
                  /\ results[i].condition_known = 1

\* a sample described by two different texts in the two executions, with
\* a visibility and a condition that are not the defaults
C6_Witness ==
    \E i \in 1..Len(results) :
        /\ invoked[i].called
        /\ ~invoked[i].raised /\ ~invoked[i].shadow_raised
        /\ results[i].description # shadow[i].description
        /\ results[i].visibility = 2
        /\ results[i].condition_known = 2
        /\ shadow[i].visibility = 2

-----------------------------------------------------------------------------
(* The resolver's outcomes at its callers *)

EmptyGraphDoc == JDict("@graph" :> JList(<<>>))

\* C11: for a document whose graph is the empty list the resolver returns
\* the outcome of a document without graph, "No data available".
C11_EmptyGraphIsNoGraph ==
    (r_ret # NotCalled /\ r_doc = EmptyGraphDoc) =>
        r_ret = [kind |-> "return", value |-> NoDataAvailable]

\* the outcome of the resolver for a document, read off the document: no
\* graph structure, a graph without main entity, or a main entity described
ResolverOutcome(doc) ==
    IF WithoutGraph(doc) THEN "NoGraph"
    ELSE IF doc.d["@graph"].t # "list" THEN "raise"
    ELSE IF extract_enhanced_description(doc).kind = "raise" THEN "raise"
    ELSE IF MainIndex(doc.d["@graph"].l) = 0 THEN "MainEntityNotFound"
    ELSE "description"

\* the records of the finished run whose document was fetched and whose row
\* the store accepted
Stored(id) ==
    /\ e_pc = "returned"
    /\ ~FetchFails(id)
    /\ writable[id] = "commits"
    /\ "description" \in db_columns

\* C12: the three outcomes of the resolver are distinguishable by its
\* callers: two documents with different outcomes neither get the same str
\* from extract_enhanced_description nor the same EnrichmentData in the
\* store.
C12_OutcomesDistinguishable ==
    \A i, j \in DOMAIN db_rows :
        (/\ Stored(i) /\ Stored(j)
         /\ ResolverOutcome(FetchedFor(i)) # "raise"
         /\ ResolverOutcome(FetchedFor(j)) # "raise"
         /\ ResolverOutcome(FetchedFor(i)) # ResolverOutcome(FetchedFor(j)))
        => /\ extract_enhanced_description(FetchedFor(i)).value
                # extract_enhanced_description(FetchedFor(j)).value
           /\ db_rows[i] # db_rows[j]

-----------------------------------------------------------------------------
(* The store and the run as a whole *)

\* C18: constructing the enricher and running enrich_database never changes
\* the set of columns of the table nor its set of row keys.
C18_SchemaUnchanged ==
    [][db_columns' = db_columns /\ DOMAIN db_rows' = DOMAIN db_rows]_vars

\* C19: a call of extract_enhanced_description leaves field_stats as it was.
C19_ResolverLeavesStats ==
    r_ret # NotCalled => field_stats = NoStats

\* C20: enrich_database returns normally, its final report made, for every
\* batch the store yields, the empty batch included.
C20_ReturnsNormally == e_pc # "raised"

-----------------------------------------------------------------------------
(* The scorers and the parser: claims *)

\* the placement text of a call of compute_visibility, lower-cased
PlacementOf(arg) ==
    [i \in 1..Len(Get(arg.parsed, "placement")) |->
        lower(Get(arg.parsed, "placement")[i])]

\* C13: compute_visibility is 0 when a "not visible" pattern matches the
\* placement text, whatever "visible" pattern matches beside it, otherwise 2
\* when a "visible" pattern matches, otherwise 1; it is always in {0, 1, 2}.
C13_VisibilityClassification ==
    (q_fn = "compute_visibility" /\ q_ret # NotCalled) =>
        /\ q_ret.value \in {0, 1, 2}
        /\ q_ret.value =
             IF \E i \in 1..Len(PlacementOf(q_arg)) :
                   PlacementOf(q_arg)[i] \in VIS_NOT_VISIBLE_PATTERNS
             THEN 0
             ELSE IF \E i \in 1..Len(PlacementOf(q_arg)) :
                        PlacementOf(q_arg)[i] \in VIS_VISIBLE_PATTERNS
             THEN 2
             ELSE 1

\* a placement in which a "visible" phrase stands before a "not visible" one
C13_Witness ==
    /\ q_fn = "compute_visibility"
    /\ q_ret # NotCalled
    /\ Len(PlacementOf(q_arg)) = 2
    /\ PlacementOf(q_arg)[1] \in VIS_VISIBLE_PATTERNS
    /\ PlacementOf(q_arg)[2] \in VIS_NOT_VISIBLE_PATTERNS
    /\ q_ret.value = 0

\* the description and the disclaimer test of a call of compute_condition
DescriptionOf(arg) == Get(arg.parsed, "description_sv")
DisclaimerIn(arg) ==
    \/ \E i \in 1..Len(arg.original_text) :
          arg.original_text[i] \in DISCLAIMER_PATTERNS
    \/ \E i \in 1..Len(DescriptionOf(arg)) :
          DescriptionOf(arg)[i] \in DISCLAIMER_PATTERNS

\* C14: compute_condition returns 0 whenever the parsed Swedish description
\* is empty, and 0 whenever a disclaimer phrase occurs in the raw text or
\* in the parsed description, whatever the detail score.
C14_EmptyOrDisclaimedIsZero ==
    (q_fn = "compute_condition" /\ q_ret # NotCalled) =>
        /\ DescriptionOf(q_arg) = <<>> => q_ret.value = 0
        /\ DisclaimerIn(q_arg) => q_ret.value = 0

\* a description rich enough for 2, with the disclaimer in the raw text only
C14_Witness ==
    /\ q_fn = "compute_condition"
    /\ q_ret # NotCalled
    /\ detail_score(DescriptionOf(q_arg)) >= 4
    /\ ~(\E i \in 1..Len(DescriptionOf(q_arg)) :
            DescriptionOf(q_arg)[i] \in DISCLAIMER_PATTERNS)
    /\ DisclaimerIn(q_arg)
    /\ q_ret.value = 0

NoLabelledLine(text) ==
    \A i \in 1..Len(splitlines(text)) :
        \/ splitlines(text)[i] = <<>>
        \/ splitlines(text)[i][1] \notin DOMAIN FIELD_MAP

\* C16: parse_record returns a mapping for every text, and the empty
\* mapping for a text in which no line starts with a recognised label.
C16_ParseTotal ==
    (q_fn = "parse_record" /\ q_ret # NotCalled) =>
        /\ q_ret.kind = "return"
        /\ DOMAIN q_ret.value \subseteq {FIELD_MAP[l] : l \in DOMAIN FIELD_MAP}
                                   \cup {"province", "county", "municipality", "parish"}
        /\ NoLabelledLine(q_arg.text) => DOMAIN q_ret.value = {}

\* a text with a label and a colon, the label not at the start of its line
C16_Witness ==
    /\ q_fn = "parse_record"
    /\ q_ret # NotCalled
    /\ NoLabelledLine(q_arg.text)
    /\ \E i \in 2..Len(q_arg.text) - 1 :
          /\ q_arg.text[i] = "Beskrivning"
          /\ q_arg.text[i + 1] = ":"
          /\ q_arg.text[i - 1] # NL
    /\ DOMAIN q_ret.value = {}

\* two mappings with the same keys and the same values
SameMapping(a, b) ==
    /\ DOMAIN a = DOMAIN b
    /\ \A k \in DOMAIN a : a[k] = b[k]

\* C17: every mapping parse_record returns, written back as section-labelled
\* text with the same labels and parsed again, comes back the same.
C17_RoundTrip ==
    (q_fn = "parse_record" /\ q_again # NotCalled) =>
        SameMapping(q_again.value, q_ret.value)

-----------------------------------------------------------------------------
(* The counters of enrich_database *)

\* the store committed the UPDATE of the record's row
Committed(id) == writable[id] = "commits" /\ "description" \in db_columns

\* C21: whenever enrich_database counts a record in successful_updates, the
\* record's computed enrichment has been committed to the store, and a
\* record whose store write failed is counted as a failure.
C21_CountedSuccessIsCommitted ==
    \A k \in 1..Len(e_log) :
      LET id == e_log[k].inspireid IN
      /\ e_log[k].counted = "successful"
           => Committed(id) /\ db_rows[id] = ExtractedFor(id).enrichment
      /\ (e_log[k].step # "no response" /\ ~Committed(id))
           => e_log[k].counted = "failed"

\* C30: every record of the batch is processed once, in batch order, and
\* counted once: after iteration i the log holds the first i records of the
\* batch and successful_updates + failed_updates = i, whichever step of the
\* iteration succeeded or raised.
C30_CountedExactlyOnce ==
    /\ successful_updates + failed_updates = e_i
    /\ Len(e_log) = e_i
    /\ e_i <= Len(sites)
    /\ \A k \in 1..Len(e_log) : e_log[k].inspireid = sites[k]
    /\ e_pc \in {"returned", "raised"} => e_i = Len(sites)

C30_Witness ==
    /\ e_pc = "returned"
    /\ Len(sites) = MaxSites
    /\ \E k \in 1..Len(e_log) : e_log[k].step = "raised"
    /\ \E k \in 1..Len(e_log) : e_log[k].step = "updated"
    /\ successful_updates = 1
    /\ failed_updates = MaxSites - 1

-----------------------------------------------------------------------------
(* parse_record: the geographic line and repeated sections *)

\* the canonical subfield of each name of a context entity
GeoField ==
    ("ksam:provinceName" :> "province") @@ ("ksam:countyName" :> "county")
    @@ ("ksam:municipalityName" :> "municipality")
    @@ ("ksam:parishName" :> "parish")

\* the text is the geographic line of the context entity
IsGeoLineOf(text, ctx) == text = GeoLine(ctx)

\* C22: parse_record recovers the geographic subfields of the line the
\* resolver emits: for every line "Province: P | County: C |
\* Municipality: M | Parish: R" with a non-empty subset of the parts, the
\* result holds province, county, municipality and parish equal to the
\* names, for exactly the parts present.
C22_GeoSubfieldsRecovered ==
    (q_fn = "parse_record" /\ q_ret # NotCalled) =>
      \A ctx \in GeoContexts :
        IsGeoLineOf(q_arg.text, ctx) =>
          \A k \in DOMAIN GeoNames :
            IF HasKey(ctx, k)
            THEN /\ GeoField[k] \in DOMAIN q_ret.value
                 /\ q_ret.value[GeoField[k]] = <<GeoNames[k]>>
            ELSE GeoField[k] \notin DOMAIN q_ret.value

\* C23: for every text the mapping parse_record returns does not contain
\* the composite key province_line.
C23_NoProvinceLine ==
    (q_fn = "parse_record" /\ q_ret # NotCalled) =>
        "province_line" \notin DOMAIN q_ret.value

\* the line opens a section: the text before its first colon is a label
OpensSection(line) ==
    /\ Len(line) >= 2
    /\ line[2] = ":"
    /\ line[1] \in DOMAIN FIELD_MAP

\* the last line of the section that the line at position i opens
SectionEnd(lines, i) ==
    LET later == {j \in i + 1..Len(lines) : OpensSection(lines[j])}
    IN  IF later = {} THEN Len(lines)
        ELSE (CHOOSE j \in later : \A h \in later : j <= h) - 1

\* the trimmed value of the section that the line at position i opens
SectionValue(lines, i) ==
    strip(Join(<<NL>>, <<SubSeq(lines[i], 3, Len(lines[i]))>>
                       \o SubSeq(lines, i + 1, SectionEnd(lines, i))))

\* the positions of the lines that open a section of the key
SectionsOf(lines, key) ==
    {i \in 1..Len(lines) : OpensSection(lines[i]) /\ FIELD_MAP[lines[i][1]] = key}

\* the non-empty values of the sections of the key, in order of appearance
RECURSIVE SectionValues(_, _, _)
SectionValues(lines, key, i) ==
    IF i > Len(lines) THEN <<>>
    ELSE (IF i \in SectionsOf(lines, key) /\ SectionValue(lines, i) # <<>>
          THEN <<SectionValue(lines, i)>> ELSE <<>>)
         \o SectionValues(lines, key, i + 1)

CanonicalKeys == {FIELD_MAP[l] : l \in DOMAIN FIELD_MAP}

\* C24 (as stated): when sections of the same canonical key occur several
\* times in a text, the key's value in the result of parse_record is the
\* non-empty trimmed section values joined by one line break in order of
\* appearance.
C24_RepeatedSectionsJoined ==
    (q_fn = "parse_record" /\ q_ret # NotCalled) =>
      \A key \in CanonicalKeys :
        LET lines == splitlines(q_arg.text)
            vals  == SectionValues(lines, key, 1)
        IN  (Cardinality(SectionsOf(lines, key)) >= 2 /\ vals # <<>>) =>
              /\ key \in DOMAIN q_ret.value
              /\ q_ret.value[key] = Join(<<NL>>, vals)

\* C24 (amended): the key's value is the non-empty trimmed section values
\* joined by one line break in order of appearance, from which, for the
\* keys of UrlFreeFields, the links are then removed and the white space
\* trimmed; a key without a non-empty section is absent, and a later
\* section never replaces an earlier value.
C24_JoinedThenUrlFree ==
    (q_fn = "parse_record" /\ q_ret # NotCalled) =>
      \A key \in CanonicalKeys :
        LET lines  == splitlines(q_arg.text)
            vals   == SectionValues(lines, key, 1)
            joined == Join(<<NL>>, vals)
        IN  IF vals = <<>> THEN key \notin DOMAIN q_ret.value
            ELSE /\ key \in DOMAIN q_ret.value
                 /\ q_ret.value[key] =
                      IF key \in UrlFreeFields THEN strip(Sub(UrlTokens, joined))
                      ELSE joined

\* three sections of a key, the middle one a link, followed by a
\* continuation line
C24_Witness ==
    /\ q_fn = "parse_record"
    /\ q_ret # NotCalled
    /\ q_arg.text = <<"Beskrivning", ":", "rose", NL,
                      "Beskrivning", ":", "http://x", NL, "kantkedja">>
    /\ q_ret.value = ("description_sv" :> <<"rose", NL, NL, "kantkedja">>)

-----------------------------------------------------------------------------
(* detail_score and the sparse description *)

\* the distinct measurement tokens of a description
DistinctMeasures(desc) == {desc[i] : i \in 1..Len(desc)} \cap MeasureTokens

\* the feature-hint keywords that occur in a description, lower-cased
HintsOccurring(desc) ==
    UNION {HintsIn[lower(desc[i])] :
             i \in {j \in 1..Len(desc) : lower(desc[j]) \in DOMAIN HintsIn}}

\* C25: detail_score(desc) equals min(5, number of distinct measurement
\* tokens in desc) plus the number of feature-hint keywords that occur in
\* desc, and is 0 for an empty description.
C25_DistinctMeasuresPlusHints ==
    (q_fn = "detail_score" /\ q_ret # NotCalled) =>
        q_ret.value =
            IF q_arg.desc_sv = <<>> THEN 0
            ELSE Min(5, Cardinality(DistinctMeasures(q_arg.desc_sv)))
                 + Cardinality(HintsOccurring(q_arg.desc_sv))

\* C26: compute_condition returns 0 whenever a disclaimer is present or the
\* description is extremely sparse (detail score of at most 1).
C26_DisclaimedOrSparseIsZero ==
    (q_fn = "compute_condition" /\ q_ret # NotCalled) =>
        ((\/ disclaimers_present(q_arg.original_text, q_arg.parsed)
          \/ detail_score(Get(q_arg.parsed, "description_sv")) <= 1)
         => q_ret.value = 0)

-----------------------------------------------------------------------------
(* extract_enhanced_description: the order of the parts and the references *)

\* the place of a part in the fixed order, by the label the part starts
\* with; the two descriptions EMainAll refers to are in reference order
PartRank ==
    ("Title" :> 1) @@ ("Class" :> 2) @@ ("Beskrivning" :> 3)
    @@ ("Tradition" :> 4) @@ ("Province" :> 5) @@ ("Terrang" :> 6)
    @@ ("RAA-nummer" :> 7) @@ ("Organization" :> 8) @@ ("Build Date" :> 9)
    @@ ("Last Changed" :> 10) @@ ("URL" :> 11)

\* the places of the parts a document with EMainAll has the data for
PresentRanks(doc) ==
    LET has(e) == \E i \in 1..Len(doc.d["@graph"].l) : doc.d["@graph"].l[i] = e
    IN  {1, 2, 8, 9, 10, 11}
        \cup (IF has(EDesc) THEN {3} ELSE {}) \cup (IF has(EDesc2) THEN {4} ELSE {})
        \cup (IF has(ECtx) THEN {5} ELSE {}) \cup (IF has(ESpec) THEN {6} ELSE {})
        \cup (IF has(ENum) THEN {7} ELSE {})

\* the call returned an assembled description
Assembled ==
    /\ r_ret # NotCalled
    /\ r_ret.kind = "return"
    /\ r_ret.value \notin {NoDataAvailable, MainEntityNotFound, NoDescriptionAvailable}

\* C27: the parts of the assembled description appear in the fixed order
\* title, class, descriptions (in reference order), geographic line,
\* specifications, item numbers, organization, build date, last changed,
\* URL, whatever the order of the entities in the document, each present
\* part once, joined by a blank line.
C27_PartsInFixedOrder ==
    Assembled =>
      LET lines == split(r_ret.value, NL)
          n     == (Len(lines) + 1) \div 2
          part(k) == lines[2 * k - 1]
      IN  /\ Len(lines) = 2 * n - 1
          /\ \A k \in 1..n - 1 : lines[2 * k] = <<>>
          /\ \A k \in 1..n : part(k) # <<>> /\ part(k)[1] \in DOMAIN PartRank
          /\ \A k \in 1..n - 1 : PartRank[part(k)[1]] < PartRank[part(k + 1)[1]]
          /\ r_doc \in ShuffledDocs =>
                {PartRank[part(k)[1]] : k \in 1..n} = PresentRanks(r_doc)

\* every target present, the main entity last in the document
C27_Witness ==
    /\ r_doc = JDict("@graph" :> JList(<<ENum, ESpec, ECtx, EDesc2, EDesc, EMainAll>>))
    /\ r_ret # NotCalled
    /\ r_ret.value =
         <<"Title", ":", "L1975:8421", NL, NL, "Class", ":", "Stensattning", NL, NL,
           "Beskrivning", ":", "rose", "5 m", NL, NL, "Tradition", ":", "offerkalla",
           NL, NL, "Province", ":", "Uppland", "|", "Parish", ":", "Vaksala", NL, NL,
           "Terrang", ":", "skogsmark", NL, NL, "RAA-nummer", ":", "Vaksala 12:1",
           NL, NL, "Organization", ":", "RAA", NL, NL, "Build Date", ":",
           "2014-01-01", NL, NL, "Last Changed", ":", "2020-05-05", NL, NL,
           "URL", ":", "http://x">>

\* the reference lists of the main entity and the leaf each one resolves
RefLeaf ==
    ("ksam:itemDescription" :> "ksam:desc")
    @@ ("ksam:itemSpecification" :> "ksam:spec")
    @@ ("ksam:itemNumber" :> "ksam:number")

\* the main entity of a document that has one
MainOf(doc) == doc.d["@graph"].l[MainIndex(doc.d["@graph"].l)]

\* the references of the main entity under the key
RefsOf(doc, key) ==
    LET refs == DictGet(MainOf(doc), key, JList(<<>>))
    IN  IF refs.t = "list" THEN refs.l ELSE <<>>

\* the reference is one the resolver follows, and its target id is missing
\* from the index, or its target has no value under the leaf
Unresolvable(doc, ref, leaf) ==
    /\ ref.t = "dict"
    /\ HasKey(ref, "@id")
    /\ LET ent == EntitiesGet(doc.d["@graph"].l, ref.d["@id"])
       IN  \/ ~Truthy(ent)
           \/ /\ ent.t = "dict"
              /\ \/ ~HasKey(ent, leaf)
                 \/ ent.d[leaf].t = "dict" /\ ~HasKey(ent.d[leaf], "@value")

\* the same document with the i-th reference of the list removed
WithoutRef(doc, key, i) ==
    LET g    == doc.d["@graph"].l
        m    == MainIndex(g)
        refs == g[m].d[key].l
        less == SubSeq(refs, 1, i - 1) \o SubSeq(refs, i + 1, Len(refs))
    IN  JDict("@graph" :>
              JList([g EXCEPT ![m] = JDict((key :> JList(less)) @@ g[m].d)]))

\* the document has a graph in which a main entity is found
HasMain(doc) ==
    /\ Truthy(doc)
    /\ HasKey(doc, "@graph")
    /\ doc.d["@graph"].t = "list"
    /\ ~GraphScanRaises(doc.d["@graph"].l)
    /\ MainIndex(doc.d["@graph"].l) # 0

\* C28: a reference whose target id is missing from the index, or whose
\* target exists but lacks the expected leaf value, contributes nothing and
\* raises no error: the call returns what it returns for the same document
\* with that reference removed.
C28_UnresolvableReferenceIgnored ==
    (r_ret # NotCalled /\ HasMain(r_doc)) =>
      \A key \in DOMAIN RefLeaf :
        \A i \in 1..Len(RefsOf(r_doc, key)) :
          Unresolvable(r_doc, RefsOf(r_doc, key)[i], RefLeaf[key]) =>
            LET o == extract_enhanced_description(WithoutRef(r_doc, key, i))
            IN  /\ r_ret.kind = o.kind
                /\ r_ret.value = o.value

-----------------------------------------------------------------------------
(* The request counters *)

\* C29: after any sequence of query_ksamsok_api calls, with any mix of
\* successes, non-200 statuses, exhausted retries and unparsable bodies,
\* total_requests equals successful_requests plus failed_requests, and each
\* call increments exactly one of the latter two.
C29_RequestCountersConsistent ==
    /\ field_stats.total_requests
         = field_stats.successful_requests + field_stats.failed_requests
    /\ field_stats.total_requests = a_calls
    /\ a_last # NotCalled =>
         /\ a_last.successful \in {0, 1}
         /\ a_last.failed = 1 - a_last.successful

\* a burst with successes and failures whose last call got a response
\* that counts as failed: a status other than 200, or a body that is not JSON
C29_Witness ==
    /\ a_last # NotCalled
    /\ a_last.kind = "response"
    /\ a_last.failed = 1
    /\ field_stats.successful_requests >= 1
    /\ field_stats.failed_requests >= 2

=============================================================================
